---- MODULE Spec2Model ----
(***************************************************************************)
(* Model of the chat-room backend: the Hub (room registry and id counter), *)
(* one Room with its Engine (Room.run), its Inactivity Watcher             *)
(* (deleteRoomWithNoActivity) and its Clients (wsHandler, readPump,        *)
(* writePump, disconnect).                                                 *)
(*                                                                         *)
(* Spec     : one room (id 1) after Hub.CreateRoom, with its goroutines.   *)
(* SpecShut : Spec plus a caller that closes the shutdown channel itself.  *)
(* SpecHub  : the Hub alone: concurrent CreateRoom, DeleteRoom, listing.   *)
(*                                                                         *)
(* A Go panic (close of a closed channel, send on a closed channel) and a  *)
(* runtime fatal error end the process: crashed = TRUE, no further step.   *)
(***************************************************************************)
EXTENDS Integers, Sequences, FiniteSets, TLC

\* ---------------------------------------------------------------- bounds
NumClients == 2
SendCap == 1
MaxPayload == 1
MaxRooms == 3
MaxBroadcasts == 4
OrderCap == 2
NumCallers == 2
MaxMsgIds == 2
MaxStored == 2

\* ------------------------------------------------------ program constants
\* Time is measured in quarter hours. Only comparisons with whole ticker
\* periods matter, and an activity never falls exactly on a tick: an elapsed
\* time of 2k+1 stands for one strictly between k and k+1 ticker periods.
roomTimeout == 4
roomTimeoutInterval == 2

\* The size limit of a stored message in bytes (2 MiB).
maxStoredSize == 2097152

SystemMessage == "system"
UserMessage == "message"
ImageMessage == "image"
\* MessageType is a string: a client may send a type of its own.
MessageTypes == {SystemMessage, UserMessage, ImageMessage, "user_typing"}

Clients == 1..NumClients
Callers == 1..NumCallers
JoinedMsg == "joined"
LeftMsg == "left"
UserMsgs == {"m" \o ToString(i) : i \in 1..MaxPayload}
Payloads == UserMsgs \cup {JoinedMsg, LeftMsg}
NoMsg == "-"
TheRoom == 1
\* AdditionalInfo values (free-form room metadata) and the absent one.
Infos == {"a", "b"}
NoInfo == "none"

VARIABLES
  rooms,          \* Hub.rooms: ids of the rooms in the registry
  roomCounter,    \* roomCounter
  clients,        \* Room.clients
  send,           \* Client.send: buffered channel content
  sendCloses,     \* number of close(c.send) executed per client
  shutdownCloses, \* number of close(r.shutdown) executed
  closedCloses,   \* number of close(r.closed) executed
  enginePc,       \* Room.run: "select", "fanout", "done"
  fanMsg,         \* payload of the broadcast being fanned out
  fanTodo,        \* clients the range loop has not visited yet
  recvLog,        \* history: payloads in the order the Engine received them
  sendCap,        \* capacity of the send channels wsHandler makes
  hist,           \* the reception history is recorded (SpecOrder)
  lastFrame,      \* history: the client and the frame of the latest read
  wPc,            \* watcher: "idle", "timeout", "disconnect", "done"
  wVisited,       \* clients disconnectAllClients has visited
  wElapsed,       \* timeSinceActivity sampled by the watcher
  sinceActivity,  \* time.Since(r.lastActivity) as of the latest tick of the
                  \* Watcher's ticker (its start, before the first tick)
  rp,             \* wsHandler / readPump goroutine of each client
  wp,             \* writePump goroutine of each client
  out,            \* payload the read pump is about to broadcast
  disconnected,   \* Client.disconnected (sync.Once) has been entered
  lateTry,        \* history: result of the latest try* call that returned
                  \* after shutdown and closed were both signaled
  crashed,        \* the process died (panic / fatal error)
  cpc,            \* Hub callers in CreateRoom: "idle", "insert"
  cid,            \* id a caller obtained from newRoomID
  issued,         \* history: ids returned by newRoomID, in order
  listing,        \* result of the latest GetAllRoomIDs
  cinfo,          \* additionalInfo argument of a caller in CreateRoom
  additionalInfo, \* Room.additionalInfo of the room with each id
  ret,            \* the latest GetRoom or DeleteRoom call and its result
  created,        \* history: metadata each returned CreateRoom was given
  deleted,        \* history: ids DeleteRoom was called for after creation
  messages,       \* Room.messages: the ordered log of the Message Store
  messageIndex,   \* the store's index by id: position in the log, 0: absent
  hpc,            \* a message edit handler: "idle", "bcast" (in tryBroadcast)
  hout,           \* the serialized message the handler broadcasts
  hstatus,        \* the status written after the last broadcast attempt of
                  \* an edit handler, 0 before it is written
  lockTodo,       \* lock and unlock calls each task has still to make in
                  \* the function it is executing
  lockHeld        \* the mutexes each task holds, with the mode

storeVars == <<messages, messageIndex>>
mutexVars == <<lockTodo, lockHeld>>
roomCore == <<clients, send, sendCloses, shutdownCloses, closedCloses,
              enginePc, fanMsg, fanTodo, recvLog, sendCap, hist, mutexVars,
              lastFrame,
              wPc,
              wVisited,
              wElapsed, sinceActivity, rp, wp, out,
              disconnected, lateTry, crashed>>
restVars == <<hpc, hout, hstatus>>
roomVars == <<roomCore, storeVars, restVars>>
hubState == <<cpc, cid, issued, listing, cinfo, additionalInfo, created,
              deleted>>
hubVars == <<hubState, ret>>
vars == <<rooms, roomCounter, roomVars, hubVars>>

\* --------------------------------------------------------------- locks
\* The tasks that take mutexes: Room.run, deleteRoomWithNoActivity, the
\* goroutines of HTTP requests and the goroutines of one client.
LockTasks == {"engine", "watcher", "rest1", "rest2", "client"}
\* The mutexes are roomMu, Hub.mu ("hubMu"), Room.activityMu, Client.closeMu
\* and the mutex of the Message Store ("storeMu").

\* No task is inside a function that locks.
LocksInit ==
  /\ lockTodo = [t \in LockTasks |-> <<>>]
  /\ lockHeld = [t \in LockTasks |-> {}]

\* ------------------------------------------------------------- helpers
Running == ~crashed

\* A full buffered channel (make(chan []byte, cap)).
QueueFull(c) == Len(send[c]) >= sendCap

\* close(r.shutdown) has been executed: <-r.shutdown is ready.
ShutdownClosed == shutdownCloses >= 1

\* The Engine's deferred close(r.closed); cancel() has run.
EngineDone == enginePc = "done"

\* Mutant: the queue is left open.
CloseSendChanForgotten(c) ==
  sendCloses' = sendCloses

\* close(c.send) as the Go runtime executes it: a second close panics.
CloseSendChan(c) ==
  sendCloses' = [sendCloses EXCEPT ![c] = @ + 1]
ClosePanics(c) == sendCloses[c] >= 1

\* The room is shut down and its Engine has terminated.
RoomClosed == ShutdownClosed /\ closedCloses >= 1

\* A try* call returns ok.
TryReturns(ok) ==
  lateTry' = IF RoomClosed THEN (IF ok THEN "true" ELSE "false") ELSE lateTry

\* The two goroutines of a client: "r" runs wsHandler and then readPump,
\* "w" runs writePump.
Pumps == {"r", "w"}
PcOf(c, g) == IF g = "r" THEN rp[c] ELSE wp[c]

\* Positions in which goroutine g of client c is inside a try* call.
InTryBroadcast(c, g) ==
  \/ g = "r" /\ rp[c] \in {"hello", "bcast", "disc_b"}
  \/ g = "w" /\ wp[c] = "disc_b"
\* ("register_w": tryRegister after the joined notice could not be broadcast
\* and wsHandler logged its warning.)
InTryRegister(c, g) == g = "r" /\ rp[c] \in {"register", "register_w"}
InTryUnregister(c, g) == PcOf(c, g) = "disc_u"
InTry(c, g) ==
  InTryBroadcast(c, g) \/ InTryRegister(c, g) \/ InTryUnregister(c, g)

\* r.clients is a plain map: a write by the Engine while the Watcher ranges
\* over it in disconnectAllClients is a data race, which the runtime may
\* answer with a fatal error. panics: the write's own close panicked.
MapWriteCrash(panics) ==
  crashed' \in {panics} \cup (IF wPc = "disconnect" THEN {TRUE} ELSE {})

\* ---------------------------------------------------------------- Init
\* A new room with its Engine and its Watcher started.
RoomStarts ==
  /\ shutdownCloses = 0
  /\ closedCloses = 0
  /\ enginePc = "select"
  /\ wPc = "idle"

\* A new room that was shut down at once: close(room.shutdown), the Engine
\* has returned and has cancelled the Watcher.
RoomStopped ==
  /\ shutdownCloses = 1
  /\ closedCloses = 1
  /\ enginePc = "done"
  /\ wPc = "done"

\* The fields of a new room, its clients (none) and its store (empty).
RoomFields ==
  /\ clients = {}
  /\ send = [c \in Clients |-> <<>>]
  /\ sendCloses = [c \in Clients |-> 0]
  /\ fanMsg = NoMsg
  /\ fanTodo = {}
  /\ recvLog = <<>>
  /\ lastFrame = <<0, NoMsg>>
  /\ wVisited = {}
  /\ wElapsed = 0
  /\ sinceActivity = 1
  /\ rp = [c \in Clients |-> "none"]
  /\ wp = [c \in Clients |-> "none"]
  /\ out = [c \in Clients |-> NoMsg]
  /\ disconnected = [c \in Clients |-> FALSE]
  /\ lateTry = "none"
  /\ crashed = FALSE
  /\ messages = <<>>
  /\ messageIndex = [id \in 1..MaxMsgIds |-> 0]
  /\ hpc = "idle"
  /\ hout = NoMsg
  /\ hstatus = 0

\* The room as CreateRoom leaves it.
RoomInit ==
  /\ RoomStarts
  /\ RoomFields

\* The callers and histories of the Hub after one CreateRoom.
HubVarsInit ==
  /\ cpc = [k \in Callers |-> "idle"]
  /\ cid = [k \in Callers |-> 0]
  /\ issued = <<TheRoom>>
  /\ listing = <<>>
  /\ cinfo = [k \in Callers |-> NoInfo]
  /\ additionalInfo = [id \in 1..MaxRooms |->
                         IF id = TheRoom THEN "a" ELSE NoInfo]
  /\ ret = <<"none">>
  /\ created = [id \in 1..MaxRooms |-> IF id = TheRoom THEN "a" ELSE NoInfo]
  /\ deleted = {}

\* The bounds a specification runs under.
ConfigInit(cap, h) ==
  /\ sendCap = cap
  /\ hist = h
  /\ LocksInit

\* The Hub and the callers after one CreateRoom: room 1 is in the Hub.
HubInit ==
  /\ rooms = {TheRoom}
  /\ roomCounter = 1
  /\ HubVarsInit

\* The process after one CreateRoom, the room's goroutines started.
Init ==
  /\ HubInit
  /\ RoomInit
  /\ ConfigInit(SendCap, FALSE)

EngineIdle == <<fanMsg, fanTodo, recvLog>>
WatcherVars == <<wPc, wVisited, wElapsed>>
ClockVars == <<sinceActivity>>
\* What readPump's read leaves alone outside the room, and what everything
\* else does.
ReadOnly == <<roomCounter, hubVars, sendCap, hist, mutexVars,
             storeVars>>
HubOnly == <<ReadOnly, lastFrame, restVars>>

\* ------------------------------------------------------------- the Hub
\* Mutant: the registry is emptied instead of one entry being removed.
HubDeleteAll(id) == {}

\* Hub.DeleteRoom: delete(h.rooms, id) under h.mu.
HubDelete(id) == rooms \ {id}

\* -------------------------------------------------------- Room Engine
\* Mutant: closed is signaled but the loop keeps serving its channels.
EngineExitKeepsServing ==
  /\ enginePc' = "select"
  /\ closedCloses' = 1

\* The deferred func of Room.run: close(r.closed); cancel().
EngineExit ==
  /\ enginePc' = "done"
  /\ closedCloses' = closedCloses + 1

\* case <-r.shutdown: return
EngineShutdown ==
  /\ Running
  /\ enginePc = "select"
  /\ ShutdownClosed
  /\ EngineExit
  /\ UNCHANGED <<rooms, clients, send, sendCloses, shutdownCloses, EngineIdle,
                 WatcherVars, ClockVars, rp, wp, out,
                 disconnected, lateTry, crashed, HubOnly>>

\* case c := <-r.register: r.clients[c] = true
\* The sender is tryRegister in wsHandler, which then starts the pumps.
EngineRegister(c) ==
  /\ Running
  /\ enginePc = "select"
  /\ InTryRegister(c, "r")
  /\ clients' = clients \cup {c}
  /\ rp' = [rp EXCEPT ![c] = "read"]
  /\ wp' = [wp EXCEPT ![c] = "run"]
  /\ TryReturns(TRUE)
  /\ MapWriteCrash(FALSE)
  /\ UNCHANGED <<rooms, send, sendCloses, shutdownCloses, closedCloses,
                 enginePc, EngineIdle, WatcherVars, ClockVars,
                 out, disconnected, HubOnly>>

\* Goroutine g of client c leaves a try* call for position pos.
Goto(c, g, pos) ==
  /\ rp' = [rp EXCEPT ![c] = IF g = "r" THEN pos ELSE @]
  /\ wp' = [wp EXCEPT ![c] = IF g = "w" THEN pos ELSE @]

\* case c := <-r.unregister:
\*   if present: delete, close(c.send); if no client is left:
\*   hub.DeleteRoom(r.id); return
\* The sender is tryUnregister in Client.disconnect, which then returns.
EngineUnregister(c, g) ==
  /\ Running
  /\ enginePc = "select"
  /\ InTryUnregister(c, g)
  /\ Goto(c, g, "done")
  /\ TryReturns(TRUE)
  /\ IF c \in clients
       THEN /\ clients' = clients \ {c}
            /\ CloseSendChan(c)
            /\ MapWriteCrash(ClosePanics(c))
            /\ IF clients' = {} /\ ~ClosePanics(c)
                 THEN /\ rooms' = HubDelete(TheRoom)
                      /\ EngineExit
                 ELSE UNCHANGED <<rooms, enginePc, closedCloses>>
       ELSE UNCHANGED <<clients, sendCloses, crashed, rooms, enginePc,
                        closedCloses>>
  /\ UNCHANGED <<send, shutdownCloses, EngineIdle, WatcherVars, ClockVars, out, disconnected, HubOnly>>

\* The payload goroutine g of client c hands to tryBroadcast:
\* wsHandler the joined notice, readPump the message it read,
\* Client.disconnect the left notice.
BroadcastPayload(c, g) ==
  IF g = "r" /\ rp[c] = "hello" THEN JoinedMsg
  ELSE IF g = "r" /\ rp[c] = "bcast" THEN out[c]
  ELSE LeftMsg

\* Mutant: every caller runs the body.
EnterDisconnectAgain(c) == "disc_b"

\* c.disconnected.Do(...): the first caller runs the body (tryBroadcast of
\* the left notice first); a later caller only waits for the body to end
\* and then closes the socket.
EnterDisconnect(c) ==
  IF disconnected[c] THEN "done" ELSE "disc_b"

\* Where goroutine g continues after tryBroadcast returned ok:
\*   wsHandler goes on to tryRegister whatever the result;
\*   readPump reads the next frame on true, breaks (disconnect) on false;
\*   Client.disconnect goes on to tryUnregister whatever the result.
LeaveBroadcast(c, g, ok) ==
  /\ Goto(c, g, CASE PcOf(c, g) = "hello" -> IF ok THEN "register"
                                             ELSE "register_w"
                  [] PcOf(c, g) = "bcast" -> IF ok THEN "read"
                                             ELSE EnterDisconnect(c)
                  [] OTHER -> "disc_u")
  /\ out' = [out EXCEPT ![c] = IF g = "r" THEN NoMsg ELSE @]
  /\ disconnected' = [disconnected EXCEPT ![c] =
                        @ \/ (PcOf(c, g) = "bcast" /\ ~ok)]

\* Room.UpdateActivityNow: r.lastActivity = time.Now() under activityMu. The
\* activity lies after the latest tick: less than one period (-1) before it.
UpdateActivityNow == sinceActivity' = 0 - 1

\* Mutant: the loop visits every connection, registered or not.
FanoutToEveryone(todo, msg) ==
  /\ fanTodo' = IF todo = {} THEN {} ELSE Clients
  /\ enginePc' = IF todo = {} THEN "select" ELSE "fanout"
  /\ fanMsg' = IF todo = {} THEN NoMsg ELSE msg

\* The range over r.clients goes on while a client is left to visit; after
\* the last one the Engine is back in its for/select.
FanoutLoop(todo, msg) ==
  /\ fanTodo' = todo
  /\ enginePc' = IF todo = {} THEN "select" ELSE "fanout"
  /\ fanMsg' = IF todo = {} THEN NoMsg ELSE msg

\* case msg := <-r.broadcast: r.UpdateActivityNow(); range r.clients begins
EngineRecvBroadcast(c, g) ==
  /\ Running
  /\ enginePc = "select"
  /\ InTryBroadcast(c, g)
  /\ hist => Len(recvLog) < MaxBroadcasts
  /\ LeaveBroadcast(c, g, TRUE)
  /\ TryReturns(TRUE)
  /\ UpdateActivityNow
  /\ FanoutLoop(clients, BroadcastPayload(c, g))
  /\ recvLog' = IF hist THEN Append(recvLog, BroadcastPayload(c, g))
                ELSE recvLog
  /\ UNCHANGED <<rooms, clients, send, sendCloses, shutdownCloses,
                 closedCloses, WatcherVars, crashed, HubOnly>>

\* Mutant: the message is put in front of the queue.
DeliverFirst(c) ==
  /\ send' = [send EXCEPT ![c] = <<fanMsg>> \o @]
  /\ UNCHANGED <<sendCloses, clients, crashed>>

\* select { case c.send <- msg: ... }: the non-blocking send succeeded.
Deliver(c) ==
  /\ send' = [send EXCEPT ![c] = Append(@, fanMsg)]
  /\ UNCHANGED <<sendCloses, clients, crashed>>

\* default: delete(r.clients, c); close(c.send)
Evict(c) ==
  /\ clients' = clients \ {c}
  /\ CloseSendChan(c)
  /\ MapWriteCrash(ClosePanics(c))
  /\ UNCHANGED send

\* One iteration of: for c := range r.clients {
\*   select { case c.send <- msg: default: delete(r.clients, c); close(c.send) } }
\* A send on a closed channel panics, also in a select with default.
EngineFanoutStep(c) ==
  /\ Running
  /\ enginePc = "fanout"
  /\ c \in fanTodo
  /\ IF sendCloses[c] >= 1
       THEN /\ crashed' = TRUE
            /\ UNCHANGED <<send, sendCloses, clients, enginePc, fanMsg,
                           fanTodo>>
       ELSE /\ FanoutLoop(fanTodo \ {c}, fanMsg)
            /\ IF QueueFull(c) THEN Evict(c) ELSE Deliver(c)
  /\ UNCHANGED <<rooms, shutdownCloses, closedCloses, WatcherVars, ClockVars,
                 rp, wp, out, disconnected, lateTry, recvLog, HubOnly>>

\* ------------------------------------------- try* helpers, shutdown side
\* tryBroadcast / tryRegister / tryUnregister select on their channel and on
\* r.shutdown. The channel side is the Engine's receive (above); this is
\* the other side: case <-r.shutdown: return false.
EngineAndWatcher == <<clients, send, sendCloses, shutdownCloses,
                      closedCloses, enginePc, EngineIdle, WatcherVars,
                      ClockVars, crashed>>

TryBroadcastFail(c, g) ==
  /\ Running
  /\ ShutdownClosed
  /\ InTryBroadcast(c, g)
  /\ LeaveBroadcast(c, g, FALSE)
  /\ TryReturns(FALSE)
  /\ UNCHANGED <<rooms, EngineAndWatcher, HubOnly>>

\* wsHandler: if !room.tryRegister(client) { conn.Close(); return }
TryRegisterFail(c) ==
  /\ Running
  /\ ShutdownClosed
  /\ InTryRegister(c, "r")
  /\ Goto(c, "r", "done")
  /\ TryReturns(FALSE)
  /\ UNCHANGED <<rooms, EngineAndWatcher, out, disconnected, HubOnly>>

TryUnregisterFail(c, g) ==
  /\ Running
  /\ ShutdownClosed
  /\ InTryUnregister(c, g)
  /\ Goto(c, g, "done")
  /\ TryReturns(FALSE)
  /\ UNCHANGED <<rooms, EngineAndWatcher, out, disconnected, HubOnly>>

\* --------------------------------------------------------------- Clients
\* wsHandler: hub.GetRoom finds the room, the socket is upgraded, the Client
\* is built with an empty send queue; next: tryBroadcast(joined notice).
\* Client c is the c-th connection the server accepts.
Join(c) ==
  /\ Running
  /\ rp[c] = "none"
  /\ \A d \in Clients : d < c => rp[d] # "none"
  /\ TheRoom \in rooms
  /\ Goto(c, "r", "hello")
  /\ UNCHANGED <<rooms, EngineAndWatcher, out, disconnected, lateTry,
                 HubOnly>>

\* c.conn.SetReadLimit(8192): the largest frame ReadJSON accepts, in bytes.
ReadLimit == 8192

\* The frames a client sends that are not stored: an image, a custom event
\* and a user message of 2 MiB.
ImageFrame == "img"
TypingFrame == "typing"
BigFrame == "big"
Frames == {ImageFrame, TypingFrame, BigFrame}

\* IncomingMessage.MessageType of a frame, and the type of the notices.
FrameType(m) ==
  CASE m = ImageFrame -> ImageMessage
    [] m = TypingFrame -> "user_typing"
    [] m \in {JoinedMsg, LeftMsg} -> SystemMessage
    [] OTHER -> UserMessage

\* The size of a frame in bytes.
FrameSize(m) == IF m = BigFrame THEN maxStoredSize ELSE ReadLimit

\* The history of the reads, kept where it is asked for.
Reads(c, m) == lastFrame' = IF hist THEN <<c, m>> ELSE lastFrame

\* readPump: ReadJSON returned a frame; next: tryBroadcast(payload).
ReadMessage(c, m) ==
  /\ Running
  /\ rp[c] = "read"
  /\ FrameSize(m) <= ReadLimit
  /\ Goto(c, "r", "bcast")
  /\ out' = [out EXCEPT ![c] = m]
  /\ Reads(c, m)
  /\ UNCHANGED <<rooms, EngineAndWatcher, disconnected, lateTry, ReadOnly,
                 restVars>>

\* readPump: ReadJSON failed; break; deferred c.disconnect().
ReadFails(c) ==
  /\ Running
  /\ rp[c] = "read"
  /\ Goto(c, "r", EnterDisconnect(c))
  /\ disconnected' = [disconnected EXCEPT ![c] = TRUE]
  /\ UNCHANGED <<rooms, EngineAndWatcher, out, lateTry, ReadOnly,
                 restVars>>

\* readPump: the socket failed or the peer closed it.
ReadError(c) ==
  /\ ReadFails(c)
  /\ Reads(c, NoMsg)

\* readPump: the frame is larger than the read limit: ReadJSON fails.
ReadTooLarge(c, m) ==
  /\ FrameSize(m) > ReadLimit
  /\ ReadFails(c)
  /\ Reads(c, m)

ClientFrame == <<rooms, clients, sendCloses, shutdownCloses, closedCloses,
                 enginePc, EngineIdle, WatcherVars, ClockVars,
                 crashed, out, lateTry, HubOnly>>

\* writePump: case msg, ok := <-c.send with ok: the frame is written.
WritePumpSend(c) ==
  /\ Running
  /\ wp[c] = "run"
  /\ send[c] # <<>>
  /\ send' = [send EXCEPT ![c] = Tail(@)]
  /\ UNCHANGED <<ClientFrame, rp, wp, disconnected>>

\* writePump: the frame was taken from the queue but WriteMessage failed.
WritePumpWriteFail(c) ==
  /\ Running
  /\ wp[c] = "run"
  /\ send[c] # <<>>
  /\ send' = [send EXCEPT ![c] = Tail(@)]
  /\ Goto(c, "w", EnterDisconnect(c))
  /\ disconnected' = [disconnected EXCEPT ![c] = TRUE]
  /\ UNCHANGED ClientFrame

\* writePump: !ok, the queue is closed and drained: close frame, return.
WritePumpClosed(c) ==
  /\ Running
  /\ wp[c] = "run"
  /\ send[c] = <<>>
  /\ sendCloses[c] >= 1
  /\ Goto(c, "w", EnterDisconnect(c))
  /\ disconnected' = [disconnected EXCEPT ![c] = TRUE]
  /\ UNCHANGED <<ClientFrame, send>>

\* writePump: case <-ticker.C and the ping could not be written.
WritePumpPingFail(c) ==
  /\ Running
  /\ wp[c] = "run"
  /\ Goto(c, "w", EnterDisconnect(c))
  /\ disconnected' = [disconnected EXCEPT ![c] = TRUE]
  /\ UNCHANGED <<ClientFrame, send>>

\* -------------------------------------------------- Inactivity Watcher
WatcherFrame == <<rooms, clients, send, sendCloses, shutdownCloses,
                  closedCloses, enginePc, EngineIdle, rp, wp,
                  out, disconnected, lateTry, crashed, HubOnly>>

\* if timeSinceActivity > roomTimeoutInterval
TimedOut(elapsed) == elapsed > roomTimeoutInterval

\* case <-ticker.C: the ticker fires every roomTimeoutInterval; the Watcher
\* samples time.Since(r.lastActivity) under activityMu and compares. The
\* sample is kept only when it decides a timeout.
WatcherTick ==
  /\ Running
  /\ wPc = "idle"
  /\ sinceActivity' = sinceActivity + roomTimeoutInterval
  /\ wPc' = IF TimedOut(sinceActivity') THEN "timeout" ELSE "idle"
  /\ wElapsed' = IF TimedOut(sinceActivity') THEN sinceActivity' ELSE 0
  /\ UNCHANGED <<WatcherFrame, wVisited>>

\* case <-ctx.Done(): return (the Engine's deferred cancel()).
WatcherCancel ==
  /\ Running
  /\ wPc = "idle"
  /\ EngineDone
  /\ wPc' = "done"
  /\ UNCHANGED <<WatcherFrame, wVisited, wElapsed, ClockVars>>

\* close(r.shutdown): closing a closed channel panics.
CloseShutdownChan ==
  /\ shutdownCloses' = shutdownCloses + 1
  /\ crashed' = (shutdownCloses >= 1)

WatcherCloseShutdown ==
  /\ Running
  /\ wPc = "timeout"
  /\ CloseShutdownChan
  /\ wPc' = "disconnect"
  /\ wVisited' = {}
  /\ wElapsed' = 0
  /\ UNCHANGED <<rooms, clients, send, sendCloses, closedCloses, enginePc,
                 EngineIdle, rp, wp, out, disconnected,
                 lateTry, HubOnly, ClockVars>>

\* disconnectAllClients, one iteration: for c := range r.clients
\* { close(c.send) }. The map is read without a lock while the Engine may
\* write it: each iteration sees the map as it is then.
WatcherDisconnect(c) ==
  /\ Running
  /\ wPc = "disconnect"
  /\ c \in clients \ wVisited
  /\ wVisited' = wVisited \cup {c}
  /\ CloseSendChan(c)
  /\ crashed' = ClosePanics(c)
  /\ UNCHANGED <<rooms, clients, send, shutdownCloses, closedCloses,
                 enginePc, EngineIdle, rp, wp, out,
                 disconnected, lateTry, HubOnly, wPc, wElapsed, ClockVars>>

\* The range is over: hub.DeleteRoom(r.id); return.
WatcherDelete ==
  /\ Running
  /\ wPc = "disconnect"
  /\ clients \ wVisited = {}
  /\ rooms' = HubDelete(TheRoom)
  /\ wPc' = "done"
  /\ wVisited' = {}
  /\ UNCHANGED <<clients, send, sendCloses, shutdownCloses, closedCloses,
                 enginePc, EngineIdle, rp, wp, out,
                 disconnected, lateTry, crashed, HubOnly, wElapsed,
                 ClockVars>>

\* ------------------------------------------------------------ Spec
EngineNext ==
  \/ EngineShutdown
  \/ \E c \in Clients : EngineRegister(c)
  \/ \E c \in Clients, g \in Pumps : EngineUnregister(c, g)
  \/ \E c \in Clients, g \in Pumps : EngineRecvBroadcast(c, g)
  \/ \E c \in Clients : EngineFanoutStep(c)

TryNext ==
  \/ \E c \in Clients, g \in Pumps : TryBroadcastFail(c, g)
  \/ \E c \in Clients : TryRegisterFail(c)
  \/ \E c \in Clients, g \in Pumps : TryUnregisterFail(c, g)

ClientNext ==
  \/ \E c \in Clients : Join(c)
  \/ \E c \in Clients, m \in UserMsgs : ReadMessage(c, m)
  \/ \E c \in Clients : ReadError(c)
  \/ \E c \in Clients : WritePumpSend(c)
  \/ \E c \in Clients : WritePumpWriteFail(c)
  \/ \E c \in Clients : WritePumpClosed(c)
  \/ \E c \in Clients : WritePumpPingFail(c)

WatcherNext ==
  \/ WatcherTick
  \/ WatcherCancel
  \/ WatcherCloseShutdown
  \/ \E c \in Clients : WatcherDisconnect(c)
  \/ WatcherDelete

Next == EngineNext \/ TryNext \/ ClientNext \/ WatcherNext

Spec == Init /\ [][Next]_vars

\* ------------------------------------------------------ SpecLive
\* The scheduler runs every goroutine that can take a step, and a select
\* picks among its ready cases at random: the Engine, back in its select
\* again and again with r.shutdown closed, takes the shutdown case at some
\* time; its fan-out and the Watcher go on while they can.
Fairness ==
  /\ SF_vars(EngineShutdown)
  /\ WF_vars(\E c \in Clients : EngineFanoutStep(c))
  /\ WF_vars(WatcherNext)

SpecLive == Spec /\ Fairness

\* ------------------------------------------------------ SpecShut
\* A caller that holds the Room closes its shutdown channel itself:
\* close(room.shutdown), as the callers in room_logic_test.go and
\* setupMessageTests do. The caller asks once, and only while it has seen no
\* shutdown of the room yet.
CallerShutdown ==
  /\ Running
  /\ shutdownCloses = 0
  /\ CloseShutdownChan
  /\ UNCHANGED <<rooms, clients, send, sendCloses, closedCloses, enginePc,
                 EngineIdle, WatcherVars, ClockVars, rp, wp,
                 out, disconnected, lateTry, HubOnly>>

NextShut == Next \/ CallerShutdown

SpecShut == Init /\ [][NextShut]_vars

\* ------------------------------------------------------ Message Store
\* The serialized sizes the producers are run with: both ends of the range
\* of the stored sizes and beyond.
Sizes == {0, 1, maxStoredSize - 1, maxStoredSize, maxStoredSize + 1}

MsgIds == 1..MaxMsgIds
\* AdditionalInfo of a message: a map from keys to values.
EmptyInfo == [k \in {} |-> TRUE]
ReplyInfo == [k \in {"replyTo"} |-> TRUE]
EditedInfo == [k \in {"edited"} |-> TRUE]
UnmodifiedInfo == [k \in {"modified"} |-> FALSE]
\* What a producer attaches to a new message, and what an edit request gives.
NewInfos == {EmptyInfo, ReplyInfo}
EditInfos == {EmptyInfo, EditedInfo, UnmodifiedInfo}
\* An optional argument: <<>> is nil, <<v>> is the value v.
Maybe(S) == {<<>>} \cup {<<v>> : v \in S}

\* shouldStoreMessage(msgType)
shouldStoreMessage(t) == t \in {SystemMessage, UserMessage}

\* Mutant: a message of exactly the limit is stored too.
PersistableUpToLimit(t, size) ==
  shouldStoreMessage(t) /\ size > 0 /\ size <= maxStoredSize

\* The producers' test before StoreMessage: the serialized length is in
\* (0, 2 MiB) and the type is persistable.
Persistable(t, size) ==
  shouldStoreMessage(t) /\ size > 0 /\ size < maxStoredSize

Present(id) == messageIndex[id] # 0

\* Mutant: the message is put in front of the log.
StoreMessageFirst(msg) ==
  /\ messages' = <<msg>> \o messages
  /\ messageIndex' = [i \in MsgIds |->
                        IF i = msg.id THEN 1
                        ELSE IF Present(i) THEN messageIndex[i] + 1 ELSE 0]

\* Room.StoreMessage: append to the log, index by id.
StoreMessage(msg) ==
  /\ messages' = Append(messages, msg)
  /\ messageIndex' = [messageIndex EXCEPT ![msg.id] = Len(messages) + 1]

\* Room.GetMessages: a snapshot of the log.
GetMessages == messages

\* Room.GetMessage: (msg, present)
GetMessage(id) == messages[messageIndex[id]]

\* info with info[flag] = true
SetFlag(info, flag) ==
  [k \in DOMAIN info \cup {flag} |-> IF k = flag THEN TRUE ELSE info[k]]

\* Mutant: the given metadata is merged into the stored one.
PatchedInfoMerged(old, mm) ==
  IF mm = <<>> THEN old
  ELSE [k \in DOMAIN old \cup DOMAIN mm[1] |->
          IF k \in DOMAIN mm[1] THEN mm[1][k] ELSE old[k]]

\* The metadata after a patch, before modified is set: the given one if one
\* is given.
PatchedInfo(old, mm) == IF mm = <<>> THEN old ELSE mm[1]

\* Mutant: the edited message is moved to the end of the log.
ReplaceAtEnd(i, msg) ==
  Append([k \in 1..(Len(messages) - 1) |->
            IF k < i THEN messages[k] ELSE messages[k + 1]], msg)

\* The log with the entry at position i replaced.
ReplaceAt(i, msg) == [messages EXCEPT ![i] = msg]

\* Room.PatchMessage(id, message, additionalInfo) for a message in the store.
PatchMessage(id, mb, mm) ==
  LET i == messageIndex[id]
      old == messages[i]
  IN ReplaceAt(i, [old EXCEPT
                     !.body = IF mb = <<>> THEN @ ELSE mb[1],
                     !.info = SetFlag(PatchedInfo(@, mm), "modified")])

\* Mutant: the given metadata is merged into the stored one.
UpdateMessageMerged(id, body, info, flag) ==
  LET i == messageIndex[id]
  IN ReplaceAt(i, [messages[i] EXCEPT
                     !.body = body,
                     !.info = SetFlag(PatchedInfoMerged(@, <<info>>), flag)])

\* Room.UpdateMessage(id, message, additionalInfo) for a message in the
\* store; flag is modified, or deleted on the delete path.
UpdateMessage(id, body, info, flag) ==
  LET i == messageIndex[id]
  IN ReplaceAt(i, [messages[i] EXCEPT !.body = body,
                                      !.info = SetFlag(info, flag)])

StoreFrame == <<rooms, roomCounter, roomCore, hubState>>

\* A producer (readPump, wsHandler, Client.disconnect) has built a message
\* with a fresh id: it is stored if it is persistable.
StoreIfPersistable(id, t, size, info) ==
  /\ Running
  /\ ~Present(id)
  /\ IF Persistable(t, size)
       THEN /\ Len(messages) < MaxStored
            /\ StoreMessage([id |-> id, type |-> t, body |-> "x",
                             info |-> info, user |-> "Alice",
                             timestamp |-> Len(messages) + 1])
       ELSE UNCHANGED storeVars
  /\ ret' = <<"store", id, t, size>>
  /\ UNCHANGED <<StoreFrame, restVars>>

\* getRoomMessagesHandler: 200 with Room.GetMessages()
GetRoomMessages ==
  /\ Running
  /\ ret' = <<"GetMessages", 0, GetMessages>>
  /\ UNCHANGED <<StoreFrame, storeVars, restVars>>

\* getRoomMessageHandler: 200 with the message, 404 without
GetRoomMessage(id) ==
  /\ Running
  /\ ret' = IF Present(id) THEN <<"GetMessage", id, 200, GetMessage(id)>>
            ELSE <<"GetMessage", id, 404>>
  /\ UNCHANGED <<StoreFrame, storeVars, restVars>>

\* Mutant: the handler answers 200 whatever the store returned.
HandlerStatusOK(ok) == 200

\* The status an edit handler answers with after its store call returned ok.
HandlerStatus(ok) == IF ok THEN 200 ELSE 404

\* patchRoomMessageHandler accepts a body with at least one of message
\* (non-empty) and additionalInfo.
ValidPatch(mb, mm) == (mb # <<>> \/ mm # <<>>) /\ mb # <<"">>

\* json.Marshal of a message.
Serialize(msg) == ToString(msg)

\* Mutant: the handler answers without broadcasting.
EditBroadcastsNothing(ok, msg) ==
  /\ hpc' = "idle"
  /\ hout' = NoMsg
  /\ hstatus' = IF ok THEN 200 ELSE hstatus

\* An edit handler broadcasts the resulting message after a success: it
\* enters room.tryBroadcast with the serialized message.
EditBroadcasts(ok, msg) ==
  /\ hpc' = IF ok THEN "bcast" ELSE "idle"
  /\ hout' = IF ok THEN Serialize(msg) ELSE NoMsg
  /\ hstatus' = IF ok THEN 0 ELSE hstatus

\* An edit handler after its store call: the new log, the status it answers
\* with, and the attempt to broadcast the resulting message, made only after
\* a success.
EditReturns(op, id, ok, log, args) ==
  /\ messages' = IF ok THEN log ELSE messages
  /\ ret' = <<op, id, HandlerStatus(ok), ok, args>>
  /\ EditBroadcasts(ok, IF ok THEN log[messageIndex[id]] ELSE NoMsg)
  /\ UNCHANGED <<messageIndex, StoreFrame>>

\* patchRoomMessageHandler
PatchRoomMessage(id, mb, mm) ==
  /\ Running
  /\ hpc = "idle"
  /\ IF ValidPatch(mb, mm)
       THEN EditReturns("PATCH", id, Present(id),
                        IF Present(id) THEN PatchMessage(id, mb, mm)
                        ELSE messages, <<mb, mm>>)
       ELSE /\ ret' = <<"PATCH", id, 400, FALSE, <<mb, mm>>>>
            /\ UNCHANGED <<storeVars, StoreFrame, restVars>>

\* putRoomMessageHandler
PutRoomMessage(id, body, info) ==
  /\ Running
  /\ hpc = "idle"
  /\ EditReturns("PUT", id, Present(id),
                 IF Present(id) THEN UpdateMessage(id, body, info, "modified")
                 ELSE messages, <<body, info>>)

\* Mutant: a failed broadcast turns the answer into a server error.
EditAnswersError(sent) == hstatus' = IF sent THEN 200 ELSE 500

\* The handler writes 200 and the edited message, whether the broadcast was
\* taken (sent) or dropped.
EditAnswers(sent) == hstatus' = 200

\* case msg := <-r.broadcast with an edit handler as the sender: the
\* handler's tryBroadcast returns true and the handler writes its response.
EngineRecvEdit ==
  /\ Running
  /\ enginePc = "select"
  /\ hpc = "bcast"
  /\ hist => Len(recvLog) < MaxBroadcasts
  /\ TryReturns(TRUE)
  /\ UpdateActivityNow
  /\ FanoutLoop(clients, hout)
  /\ recvLog' = IF hist THEN Append(recvLog, hout) ELSE recvLog
  /\ hpc' = "idle"
  /\ hout' = NoMsg
  /\ EditAnswers(TRUE)
  /\ UNCHANGED <<rooms, clients, send, sendCloses, shutdownCloses,
                 closedCloses, WatcherVars, crashed, rp, wp, out,
                 disconnected, ReadOnly, lastFrame>>

\* The handler's tryBroadcast returns false (case <-r.shutdown): the failed
\* attempt is dropped and the handler writes its response.
EditBroadcastFail ==
  /\ Running
  /\ ShutdownClosed
  /\ hpc = "bcast"
  /\ TryReturns(FALSE)
  /\ hpc' = "idle"
  /\ hout' = NoMsg
  /\ EditAnswers(FALSE)
  /\ UNCHANGED <<rooms, EngineAndWatcher, rp, wp, out, disconnected,
                 ReadOnly, lastFrame>>

\* Mutant: the message is flagged and keeps its body.
FlagDeleted(id) ==
  UpdateMessage(id, messages[messageIndex[id]].body, EmptyInfo, "deleted")

\* The delete path: the body becomes "deleted", the metadata {deleted: true}.
SoftDelete(id) == UpdateMessage(id, "deleted", EmptyInfo, "deleted")

\* deleteRoomMessageHandler
DeleteRoomMessage(id) ==
  /\ Running
  /\ hpc = "idle"
  /\ EditReturns("DELETE", id, Present(id),
                 IF Present(id) THEN SoftDelete(id) ELSE messages, <<>>)

\* ------------------------------------------------------ SpecStore
\* The store of room 1 with its producers and the REST handlers of the
\* messages; the room is shut down, as setupMessageTests leaves it.
NextStore ==
  \/ \E id \in MsgIds, t \in MessageTypes, size \in Sizes, info \in NewInfos :
       StoreIfPersistable(id, t, size, info)
  \/ GetRoomMessages
  \/ \E id \in MsgIds : GetRoomMessage(id)
  \/ \E id \in MsgIds, mb \in Maybe({"", "y"}), mm \in Maybe(EditInfos) :
       PatchRoomMessage(id, mb, mm)
  \/ \E id \in MsgIds, info \in EditInfos : PutRoomMessage(id, "y", info)
  \/ \E id \in MsgIds : DeleteRoomMessage(id)
  \/ EditBroadcastFail

\* setupMessageTests: CreateRoom, then close(room.shutdown)
InitStore ==
  /\ HubInit
  /\ RoomStopped
  /\ RoomFields
  /\ ConfigInit(SendCap, FALSE)

SpecStore == InitStore /\ [][NextStore]_vars

\* ------------------------------------------------------- SpecEdit
\* A running room within its first ticker period: clients join and are
\* registered, a producer stores user messages, and the edit handlers change
\* them and broadcast the result through the Engine.
NextEdit ==
  \/ \E c \in Clients : Join(c)
  \/ \E c \in Clients, g \in Pumps : EngineRecvBroadcast(c, g)
  \/ \E c \in Clients : EngineRegister(c)
  \/ \E c \in Clients : EngineFanoutStep(c)
  \/ \E c \in Clients : WritePumpSend(c)
  \/ \E id \in MsgIds : StoreIfPersistable(id, UserMessage, 1, EmptyInfo)
  \/ \E id \in MsgIds : PatchRoomMessage(id, <<"y">>, <<>>)
  \/ \E id \in MsgIds : PutRoomMessage(id, "y", EditedInfo)
  \/ \E id \in MsgIds : DeleteRoomMessage(id)
  \/ EngineRecvEdit

SpecEdit == Init /\ [][NextEdit]_vars

\* ------------------------------------------------------ SpecOrder
\* The room within its first ticker period (the Watcher does not tick), with
\* send queues of capacity OrderCap and the Engine's receptions recorded, at
\* most MaxBroadcasts of them.
InitOrder ==
  /\ HubInit
  /\ RoomInit
  /\ ConfigInit(OrderCap, TRUE)

NextOrder ==
  \/ \E c \in Clients : EngineRegister(c)
  \/ \E c \in Clients, g \in Pumps : EngineUnregister(c, g)
  \/ \E c \in Clients, g \in Pumps : EngineRecvBroadcast(c, g)
  \/ \E c \in Clients : EngineFanoutStep(c)
  \/ \E c \in Clients : Join(c)
  \/ \E c \in Clients, m \in Frames : ReadMessage(c, m)
  \/ \E c \in Clients, m \in Frames : ReadTooLarge(c, m)
  \/ \E c \in Clients : ReadError(c)
  \/ \E c \in Clients : WritePumpSend(c)
  \/ \E c \in Clients : WritePumpWriteFail(c)
  \/ \E c \in Clients : WritePumpClosed(c)
  \/ \E c \in Clients : WritePumpPingFail(c)
  \/ WatcherCancel

SpecOrder == InitOrder /\ [][NextOrder]_vars

\* ------------------------------------------------------- SpecHub
\* The Hub alone: callers run CreateRoom concurrently, rooms are deleted
\* (by their Engine or Watcher), the registry is listed.
InitHub ==
  /\ rooms = {}
  /\ roomCounter = 0
  /\ RoomInit
  /\ ConfigInit(SendCap, FALSE)
  /\ cpc = [k \in Callers |-> "idle"]
  /\ cid = [k \in Callers |-> 0]
  /\ issued = <<>>
  /\ listing = <<>>
  /\ cinfo = [k \in Callers |-> NoInfo]
  /\ additionalInfo = [id \in 1..MaxRooms |-> NoInfo]
  /\ ret = <<"none">>
  /\ created = [id \in 1..MaxRooms |-> NoInfo]
  /\ deleted = {}

\* Mutant: the id is derived from the number of rooms in the Hub.
NextRoomIDFromSize == Cardinality(rooms) + 1

\* newRoomID: roomCounter++ ; return uint(roomCounter), under roomMu.
NextRoomID == roomCounter + 1

\* CreateRoom(additionalInfo), first half: id := newRoomID().
CreateRoomNewID(k, a) ==
  /\ cpc[k] = "idle"
  /\ roomCounter < MaxRooms
  /\ roomCounter' = NextRoomID
  /\ cid' = [cid EXCEPT ![k] = roomCounter']
  /\ cinfo' = [cinfo EXCEPT ![k] = a]
  /\ issued' = Append(issued, roomCounter')
  /\ cpc' = [cpc EXCEPT ![k] = "insert"]
  /\ UNCHANGED <<rooms, listing, additionalInfo, ret, created, deleted,
                 roomVars>>

\* Mutant: the room is built without the metadata it was given.
RoomLiteralNoInfo(id, a) == [additionalInfo EXCEPT ![id] = NoInfo]

\* room := &Room{id: id, ..., additionalInfo: additionalInfo}
RoomLiteral(id, a) == [additionalInfo EXCEPT ![id] = a]

\* CreateRoom, second half: h.rooms[id] = room under h.mu; go room.run();
\* return room.
CreateRoomInsert(k) ==
  /\ cpc[k] = "insert"
  /\ rooms' = rooms \cup {cid[k]}
  /\ additionalInfo' = RoomLiteral(cid[k], cinfo[k])
  /\ created' = [created EXCEPT ![cid[k]] = cinfo[k]]
  /\ cpc' = [cpc EXCEPT ![k] = "idle"]
  /\ cid' = [cid EXCEPT ![k] = 0]
  /\ cinfo' = [cinfo EXCEPT ![k] = NoInfo]
  /\ UNCHANGED <<roomCounter, issued, listing, ret, deleted, roomVars>>

\* Hub.GetRoom(id): r, ok := h.rooms[id] under the read lock; the caller
\* reads the room's id and additionalInfo (getRoomIDHandler).
GetRoom(id) ==
  /\ ret' = IF id \in rooms THEN <<"GetRoom", id, TRUE, additionalInfo[id]>>
            ELSE <<"GetRoom", id, FALSE, NoInfo>>
  /\ UNCHANGED <<rooms, roomCounter, cpc, cid, issued, listing, cinfo,
                 additionalInfo, created, deleted, roomVars>>

\* Hub.DeleteRoom(id): deleting an absent id changes nothing.
DeleteRoom(id) ==
  /\ rooms' = HubDelete(id)
  /\ ret' = <<"DeleteRoom", id>>
  /\ deleted' = IF created[id] # NoInfo THEN deleted \cup {id} ELSE deleted
  /\ UNCHANGED <<roomCounter, cpc, cid, issued, listing, cinfo,
                 additionalInfo, created, roomVars>>

\* ------------------------------------------------ room metadata edits
\* The metadata with the keys of both "a" and "b".
BothInfos == "ab"

\* for k, v := range updates { r.additionalInfo[k] = v }: field-level merge.
\* "a" and "b" stand for metadata with different keys.
MergeInfo(old, updates) ==
  IF old = NoInfo \/ old = updates THEN updates ELSE BothInfos

\* Mutant: writing the metadata counts as an activity of the room.
SetAdditionalInfoNow(id, info) ==
  /\ additionalInfo' = [additionalInfo EXCEPT ![id] = info]
  /\ UpdateActivityNow

\* Room.PatchAdditionalInfo / Room.UpdateAdditionalInfo write
\* r.additionalInfo under activityMu and leave r.lastActivity alone.
SetAdditionalInfo(id, info) ==
  /\ additionalInfo' = [additionalInfo EXCEPT ![id] = info]
  /\ UNCHANGED ClockVars

\* What a room metadata handler leaves alone.
MetaFrame == <<rooms, roomCounter, cpc, cid, issued, listing, cinfo, created,
               deleted, clients, send, sendCloses, shutdownCloses,
               closedCloses, enginePc, EngineIdle, WatcherVars, rp, wp, out,
               disconnected, lateTry, crashed, sendCap, hist, mutexVars,
               lastFrame,
               storeVars, restVars>>

\* A room metadata handler: hub.GetRoom, 404 without the room, else the
\* write and 200 with room.GetAdditionalInfo().
RoomHandler(op, id, info) ==
  /\ IF id \in rooms
       THEN /\ SetAdditionalInfo(id, info)
            /\ ret' = <<op, id, 200, info>>
       ELSE /\ ret' = <<op, id, 404, NoInfo>>
            /\ UNCHANGED <<additionalInfo, ClockVars>>
  /\ UNCHANGED MetaFrame

\* patchRoomHandler: room.PatchAdditionalInfo(updates)
PatchRoom(id, updates) ==
  /\ Running
  /\ RoomHandler("PATCH room", id, MergeInfo(additionalInfo[id], updates))

\* putRoomHandler: room.UpdateAdditionalInfo(newInfo)
PutRoom(id, newInfo) ==
  /\ Running
  /\ RoomHandler("PUT room", id, newInfo)

\* ------------------------------------------------------- SpecMeta
\* Room 1 with clients joining, its Watcher, and metadata edits over REST.
NextMeta ==
  \/ \E c \in Clients : Join(c)
  \/ \E c \in Clients, g \in Pumps : EngineRecvBroadcast(c, g)
  \/ \E c \in Clients : EngineRegister(c)
  \/ \E c \in Clients : EngineFanoutStep(c)
  \/ \E c \in Clients : WritePumpSend(c)
  \/ \E c \in Clients, g \in Pumps : TryBroadcastFail(c, g)
  \/ \E c \in Clients : TryRegisterFail(c)
  \/ EngineShutdown
  \/ WatcherTick
  \/ WatcherCloseShutdown
  \/ \E c \in Clients : WatcherDisconnect(c)
  \/ WatcherDelete
  \/ \E a \in Infos : PatchRoom(TheRoom, a)
  \/ \E a \in Infos : PutRoom(TheRoom, a)

SpecMeta == Init /\ [][NextMeta]_vars

\* ------------------------------------------------------ mutex discipline
\* The calls on mutexes a function makes, in program order.  A call is
\* <<"Lock" | "RLock" | "Unlock" | "RUnlock", mutex>>.
\* newRoomID: roomMu.Lock(); defer roomMu.Unlock().
newRoomIDLocks == << <<"Lock", "roomMu">>, <<"Unlock", "roomMu">> >>

\* Hub.DeleteRoom: h.mu.Lock(); defer h.mu.Unlock().
DeleteRoomLocks == << <<"Lock", "hubMu">>, <<"Unlock", "hubMu">> >>

\* Hub.CreateRoom: id := newRoomID(), then h.mu.Lock(); insert; Unlock().
CreateRoomLocks ==
  newRoomIDLocks \o << <<"Lock", "hubMu">>, <<"Unlock", "hubMu">> >>

\* Hub.GetRoom: h.mu.RLock(); defer h.mu.RUnlock().  Hub.GetAllRoomIDs does
\* the same and reads the room fields without a further lock.
GetRoomLocks == << <<"RLock", "hubMu">>, <<"RUnlock", "hubMu">> >>

\* Room.UpdateActivityNow: r.activityMu.Lock(); defer Unlock().
UpdateActivityNowLocks ==
  << <<"Lock", "activityMu">>, <<"Unlock", "activityMu">> >>

\* Mutant: the Watcher keeps the activity lock until the room is deleted.
WatcherKeepsActivityMu(timedOut) ==
  IF timedOut
    THEN << <<"RLock", "activityMu">> >> \o DeleteRoomLocks
           \o << <<"RUnlock", "activityMu">> >>
    ELSE << <<"RLock", "activityMu">>, <<"RUnlock", "activityMu">> >>

\* One tick of deleteRoomWithNoActivity: activityMu.RLock(); read;
\* RUnlock(); after a timeout close(r.shutdown), disconnectAllClients and
\* hub.DeleteRoom.
deleteRoomWithNoActivityLocks(timedOut) ==
  << <<"RLock", "activityMu">>, <<"RUnlock", "activityMu">> >>
    \o (IF timedOut THEN DeleteRoomLocks ELSE <<>>)

\* Room.run, one case of its select: UpdateActivityNow for a broadcast,
\* hub.DeleteRoom after the last unregister; register takes no lock.
RoomRunLocks == {UpdateActivityNowLocks, DeleteRoomLocks, <<>>}

\* Client.closeSend: c.closeMu.Lock(); defer c.closeMu.Unlock().
closeSendLocks == << <<"Lock", "closeMu">>, <<"Unlock", "closeMu">> >>

\* PatchAdditionalInfo / UpdateAdditionalInfo: the activity lock alone.
SetAdditionalInfoLocks ==
  << <<"Lock", "activityMu">>, <<"Unlock", "activityMu">> >>

\* patchRoomHandler / putRoomHandler: hub.GetRoom, then the write of the
\* metadata.
RoomHandlerLocks == GetRoomLocks \o SetAdditionalInfoLocks

\* An operation of the Message Store: the store's own lock alone.
StoreLocks == << <<"Lock", "storeMu">>, <<"Unlock", "storeMu">> >>

\* A message handler: hub.GetRoom, then one operation of the store.
MessageHandlerLocks == GetRoomLocks \o StoreLocks

\* The functions each task executes.
LockOps(t) ==
  CASE t = "engine" -> RoomRunLocks \ {<<>>}
    [] t = "watcher" -> {deleteRoomWithNoActivityLocks(b) : b \in BOOLEAN}
    [] t = "client" -> {GetRoomLocks, closeSendLocks}
    [] OTHER -> {CreateRoomLocks, GetRoomLocks, DeleteRoomLocks,
                 RoomHandlerLocks, MessageHandlerLocks}

\* The tasks holding mutex l in any mode, and those holding it for writing.
Holders(l) == {u \in LockTasks : \E m \in {"R", "W"} : <<l, m>> \in lockHeld[u]}
Writers(l) == {u \in LockTasks : <<l, "W">> \in lockHeld[u]}

\* The call task t is at, <<"none", "none">> outside a locking function.
NextCall(t) ==
  IF lockTodo[t] = <<>> THEN <<"none", "none">> ELSE Head(lockTodo[t])

\* sync.Mutex / sync.RWMutex: Lock waits for every holder, RLock for a
\* writer.
CanAcquire(t) ==
  \/ NextCall(t)[1] = "Lock" /\ Holders(NextCall(t)[2]) = {}
  \/ NextCall(t)[1] = "RLock" /\ Writers(NextCall(t)[2]) = {}

\* What the calls on mutexes leave alone.
LockFrame == <<rooms, roomCounter, hubVars, storeVars, restVars, clients,
               send, sendCloses, shutdownCloses, closedCloses, enginePc,
               EngineIdle, WatcherVars, ClockVars, rp, wp, out, disconnected,
               lateTry, crashed, sendCap, hist, lastFrame>>

\* Task t enters a function.
LockCall(t, calls) ==
  /\ lockTodo[t] = <<>>
  /\ calls \in LockOps(t)
  /\ lockTodo' = [lockTodo EXCEPT ![t] = calls]
  /\ UNCHANGED <<lockHeld, LockFrame>>

\* Lock() or RLock() returns.
LockAcquire(t) ==
  /\ CanAcquire(t)
  /\ lockHeld' = [lockHeld EXCEPT ![t] =
       @ \cup {<<NextCall(t)[2],
                 IF NextCall(t)[1] = "Lock" THEN "W" ELSE "R">>}]
  /\ lockTodo' = [lockTodo EXCEPT ![t] = Tail(@)]
  /\ UNCHANGED LockFrame

\* Unlock() or RUnlock().
LockRelease(t) ==
  /\ NextCall(t)[1] \in {"Unlock", "RUnlock"}
  /\ lockHeld' = [lockHeld EXCEPT ![t] =
       @ \ {<<NextCall(t)[2],
               IF NextCall(t)[1] = "Unlock" THEN "W" ELSE "R">>}]
  /\ lockTodo' = [lockTodo EXCEPT ![t] = Tail(@)]
  /\ UNCHANGED LockFrame

\* ------------------------------------------------------- SpecLocks
\* The tasks of one room and of the HTTP server, each running the
\* functions that lock, in any order and interleaving.
NextLocks ==
  \/ \E t \in LockTasks : \E calls \in LockOps(t) : LockCall(t, calls)
  \/ \E t \in LockTasks : LockAcquire(t)
  \/ \E t \in LockTasks : LockRelease(t)

SpecLocks == Init /\ [][NextLocks]_vars

\* The orders in which a range over a Go map with key set S may yield it.
MapOrders(S) ==
  {q \in [1..Cardinality(S) -> S] : \A i, j \in 1..Cardinality(S) :
                                      i # j => q[i] # q[j]}

\* Hub.GetAllRoomIDs: for _, room := range h.rooms { append }; return.
GetAllRoomIDs ==
  /\ listing' \in MapOrders(rooms)
  /\ UNCHANGED <<rooms, roomCounter, cpc, cid, issued, cinfo, additionalInfo,
                 ret, created, deleted, roomVars>>

\* Room TheRoom has been created: its Engine runs, whether or not the room
\* is still in the Hub.
RoomStarted == created[TheRoom] # NoInfo

\* The Engine of room TheRoom is asked to shut down and obeys.
HubRoomShutdown ==
  /\ RoomStarted
  /\ CallerShutdown \/ EngineShutdown

NextHub ==
  \/ \E k \in Callers, a \in Infos : CreateRoomNewID(k, a)
  \/ \E k \in Callers : CreateRoomInsert(k)
  \/ \E id \in 0..MaxRooms : GetRoom(id)
  \/ \E id \in 1..MaxRooms : DeleteRoom(id)
  \/ GetAllRoomIDs
  \/ HubRoomShutdown

SpecHub == InitHub /\ [][NextHub]_vars

\* =================================================================
\* Claims
\* =================================================================

\* The Engine ends its visit of client c in the fan-out of fanMsg: it moves
\* on in the range loop, or the process dies in the visit.
FanoutVisits(c) ==
  /\ enginePc = "fanout"
  /\ c \in fanTodo
  /\ c \notin fanTodo' \/ crashed'

\* C1: for every broadcast the Engine processes while its client set is S,
\* each client of S that is not evicted during the fan-out has exactly one
\* copy of the payload appended to its queue: the Engine visits each client
\* of S once, and a visit that leaves the client in the set appends one
\* copy to its queue and nothing to any other queue.
C1_FanoutExactlyOnce ==
  [][\A c \in Clients :
       FanoutVisits(c)
         => /\ c \in clients' => send'[c] = Append(send[c], fanMsg)
            /\ \A d \in Clients \ {c} : send'[d] = send[d]
            /\ fanTodo' = fanTodo \ {c}
            /\ enginePc' = "select" <=> fanTodo' = {}]_vars

\* C2: in a fan-out, a client whose queue is full is removed from the client
\* set and its queue is closed, every other client stays and the fan-out
\* goes on; a client whose queue has free space gets the payload and stays.
C2_SlowConsumerEvicted ==
  [][\A c \in Clients :
       FanoutVisits(c)
         => IF QueueFull(c)
              THEN /\ clients' = clients \ {c}
                   /\ sendCloses'[c] = 1
                   /\ send' = send
                   /\ ~crashed'
              ELSE /\ clients' = clients
                   /\ send'[c] = Append(send[c], fanMsg)
                   /\ ~crashed']_vars

\* C3: a client's outbound queue is closed at most once, in every
\* interleaving of unregister, eviction, the Watcher's timeout and the
\* disconnect path.
C3_SendClosedAtMostOnce == \A c \in Clients : sendCloses[c] <= 1

\* C4: however many shutdown requests a room gets, from the Watcher or any
\* other caller, the shutdown signal is closed once and closed is emitted
\* once.
C4_ShutdownOnce == shutdownCloses <= 1 /\ closedCloses <= 1

\* Some goroutine returns from a try* call in this step.
TryCallReturns ==
  \E c \in Clients :
    \/ InTry(c, "r") /\ rp'[c] # rp[c]
    \/ InTry(c, "w") /\ wp'[c] # wp[c]

\* C5: once the room is shut down and its Engine has terminated, every
\* tryBroadcast, tryRegister and tryUnregister returns false and leaves the
\* client set and every queue as they were.
C5_TryFailsAfterClose ==
  [][(RoomClosed /\ TryCallReturns)
       => /\ lateTry' = "false"
          /\ clients' = clients
          /\ send' = send
          /\ sendCloses' = sendCloses]_vars

\* A try* call returned false on a closed room.
C5_Witness == RoomClosed /\ lateTry = "false"

\* Goroutine g of client c waits in a try* call that can never return: the
\* Engine is gone, shutdown is not closed and nobody is left to close it.
StuckInTry(c, g) ==
  /\ InTry(c, g)
  /\ EngineDone
  /\ ~ShutdownClosed
  /\ wPc = "done"
  /\ ~crashed

\* C6: every try* call eventually returns: no producer stays blocked forever
\* on a room whose Engine has terminated.
C6_NoProducerBlockedForever ==
  \A c \in Clients, g \in Pumps : ~StuckInTry(c, g)

\* The Watcher found the room idle for longer than the threshold.
WatcherTimedOut == wPc \in {"timeout", "disconnect"} \/ shutdownCloses >= 1

\* The room is shut down and gone from the Hub.
RoomRemoved == ShutdownClosed /\ EngineDone /\ TheRoom \notin rooms

\* C7: a room idle for longer than the threshold is eventually shut down
\* (shutdown signaled, Engine terminated) and removed from the Hub: it never
\* ends in a state from which that can no longer happen.
C7_IdleRoomRemoved == (WatcherTimedOut /\ crashed) => RoomRemoved

\* C8: the Watcher shuts a room down only on a tick at which the time since
\* lastActivity exceeds roomTimeout.
C8_ShutdownOnlyAfterRoomTimeout ==
  [][(wPc = "timeout" /\ shutdownCloses' > shutdownCloses)
       => wElapsed > roomTimeout]_vars

\* C9: room ids are unique and strictly increasing in creation order,
\* consecutive ids differ by 1, and no id is handed out twice, also after
\* its room was deleted.
C9_RoomIdsIncrease ==
  /\ \A i \in 1..Len(issued) : issued[i] = i
  /\ \A i, j \in 1..Len(issued) : i < j => issued[i] < issued[j]
  /\ \A id \in rooms : \E i \in 1..Len(issued) : issued[i] = id

\* Two ids were handed out after a room had been created and deleted.
C9_Witness ==
  /\ Len(issued) = MaxRooms
  /\ issued[1] \notin rooms
  /\ issued[MaxRooms] \in rooms
  /\ \A k \in Callers : cpc[k] = "idle"

\* C10: the room listing holds exactly the rooms of the Hub, each once, in
\* strictly ascending id order.
C10_ListingAscending ==
  [][listing' # listing
       => /\ {listing'[i] : i \in 1..Len(listing')} = rooms
          /\ Len(listing') = Cardinality(rooms)
          /\ \A i, j \in 1..Len(listing') :
               i < j => listing'[i] < listing'[j]]_vars

\* The step is a GetRoom(id) call returning.
GetRoomReturns(id) == ret' # ret /\ ret'[1] = "GetRoom" /\ ret'[2] = id

\* Some CreateRoom call obtained id from newRoomID.
EverIssued(id) == \E i \in 1..Len(issued) : issued[i] = id

DeleteRoomReturns(id) == ret' # ret /\ ret' = <<"DeleteRoom", id>>

\* C12: DeleteRoom(id) is idempotent and touches only the Hub entry for id:
\* for an absent id the Hub stays as it is, every other room's entry is
\* unchanged, shutdown is not signaled and the room's Engine is left running.
C12_DeleteRoomOnlyItsEntry ==
  [][\A id \in 1..MaxRooms :
       DeleteRoomReturns(id)
         => /\ rooms' = rooms \ {id}
            /\ id \notin rooms => rooms' = rooms
            /\ additionalInfo' = additionalInfo
            /\ shutdownCloses' = shutdownCloses
            /\ closedCloses' = closedCloses
            /\ enginePc' = enginePc
            /\ UNCHANGED roomVars]_vars

\* Room TheRoom was deleted from a Hub that holds another room, no shutdown
\* was signaled and its Engine is still in its select.
C12_Witness ==
  /\ ret = <<"DeleteRoom", TheRoom>>
  /\ TheRoom \in deleted
  /\ rooms # {}
  /\ ~ShutdownClosed
  /\ enginePc = "select"

\* The Engine receives client c from r.register.
RegisterProcessed(c) == InTryRegister(c, "r") /\ rp'[c] = "read"

\* A tryUnregister(c) call returns: the Engine received c from r.unregister
\* or, on a room that is shut down, the call gave up.
UnregisterReturns(c) ==
  \E g \in Pumps : InTryUnregister(c, g) /\ ~InTryUnregister(c, g)'

\* C13: after the Engine processes register(c), c is in the client set and
\* the count has grown by one; after it processes unregister(c) for a member
\* c, c is out of the set, the count has dropped by one and c's queue is
\* closed; unregister(c) for a client not in the set changes nothing and
\* closes nothing. (A tryUnregister that gives up on a room that is shut
\* down is not processed by the Engine and changes nothing.)
C13_RegisterUnregister ==
  [][\A c \in Clients :
       /\ RegisterProcessed(c)
            => /\ c \in clients'
               /\ Cardinality(clients') = Cardinality(clients) + 1
               /\ sendCloses' = sendCloses
       /\ (UnregisterReturns(c) /\ c \in clients)
            => \/ /\ c \notin clients'
                  /\ Cardinality(clients') = Cardinality(clients) - 1
                  /\ sendCloses'[c] >= 1
                  /\ sendCloses'[c] = sendCloses[c] + 1
                  /\ \A d \in Clients \ {c} : sendCloses'[d] = sendCloses[d]
               \/ /\ ShutdownClosed
                  /\ clients' = clients
                  /\ sendCloses' = sendCloses
       /\ (UnregisterReturns(c) /\ c \notin clients)
            => /\ clients' = clients
               /\ sendCloses' = sendCloses
               /\ send' = send]_vars

\* Client 1 was unregistered as a member while client 2 is registered, and
\* the room is not shut down.
C13_Witness ==
  /\ rp[1] = "done"
  /\ 1 \notin clients
  /\ sendCloses[1] = 1
  /\ 2 \in clients
  /\ ~ShutdownClosed
  /\ ~crashed

\* s can be had from t by leaving elements out: the elements of s occur in
\* t in the same relative order.
RECURSIVE IsSubSeq(_, _)
IsSubSeq(s, t) ==
  IF s = <<>> THEN TRUE
  ELSE IF t = <<>> THEN FALSE
  ELSE IF Head(s) = Head(t) THEN IsSubSeq(Tail(s), Tail(t))
  ELSE IsSubSeq(s, Tail(t))

\* C14: the broadcasts of the room are totally ordered by the order in which
\* the Engine receives them: what a client's send queue holds, it holds in
\* the Engine's order of reception, so two clients that hold the same two
\* messages hold them in the same relative order.
C14_BroadcastTotalOrder ==
  hist => \A c \in Clients : IsSubSeq(send[c], recvLog)

\* Both clients were registered before two different broadcasts, and both
\* queues hold the two.
C14_Witness ==
  /\ hist
  /\ \A c \in Clients : c \in clients /\ Len(send[c]) = 2
  /\ send[1] = send[2]
  /\ send[1][1] # send[1][2]
  /\ ~crashed

\* C15: a client's disconnect ends that client only: the Engine keeps
\* running and the room stays in the Hub after any client, the last one
\* included, is unregistered; the Engine stops and the room leaves the Hub
\* only through the Watcher's inactivity timeout.
C15_RoomOutlivesItsClients ==
  (EngineDone \/ TheRoom \notin rooms) => WatcherTimedOut

\* A producer has handled the message with the fresh id, of type t and
\* serialized size size.
Produced(id, t, size) == ~Present(id) /\ ret' = <<"store", id, t, size>>

PeerSent(c, m) == rp[c] = "read" /\ rp'[c] # "read" /\ lastFrame' = <<c, m>>

\* A message that is not stored: of type image or a custom type, or of 2 MiB
\* and more.
NotStored(m) ==
  \/ FrameType(m) \notin {"system", "message"}
  \/ FrameSize(m) >= 2 * 1024 * 1024

\* C17: delivery does not depend on persistability: a message that is not
\* stored is handed to the Engine by the read pump like any other, and the
\* Engine fans every message it receives out to all clients of the room, the
\* sender included.
C17_DeliveryIgnoresPersistability ==
  [][/\ \A c \in Clients, m \in Frames :
          (PeerSent(c, m) /\ NotStored(m))
            => rp'[c] = "bcast" /\ out'[c] = m
     /\ recvLog' # recvLog
          => /\ fanTodo' = clients
             /\ clients # {} => fanMsg' = recvLog'[Len(recvLog')]]_vars

\* The ids of the log, in its order.
LogIds(log) == [i \in 1..Len(log) |-> log[i].id]

\* C18: GetMessages returns the stored messages in insertion order: a
\* StoreMessage call puts its message behind all the earlier ones, and a
\* PatchMessage or UpdateMessage call (PATCH, PUT, DELETE) leaves the ids and
\* their order as they are; every stored id occurs once.
C18_GetMessagesInsertionOrder ==
  /\ [][/\ \A id \in MsgIds :
             (~Present(id) /\ Present(id)')
               => LogIds(GetMessages') = Append(LogIds(GetMessages), id)
        /\ (\A id \in MsgIds : Present(id)' = Present(id))
             => LogIds(GetMessages') = LogIds(GetMessages)]_vars
  /\ [](\A i, j \in 1..Len(GetMessages) :
          GetMessages[i].id = GetMessages[j].id => i = j)
  /\ [](ret[1] = "GetMessages" => LogIds(ret[3]) = LogIds(GetMessages))

\* Message 2 was stored before message 1, both were edited since, and
\* GetMessages returned them in that order.
C18_Witness ==
  /\ ret[1] = "GetMessages"
  /\ LogIds(ret[3]) = <<2, 1>>
  /\ \A i \in 1..2 : "modified" \in DOMAIN ret[3][i].info
                       \/ "deleted" \in DOMAIN ret[3][i].info

\* C19: PatchMessage on an existing message changes the provided fields only:
\* the body is the new one if one is given and the old one otherwise; the
\* metadata is the given map as a whole if one is given (no old key is kept)
\* and keeps all its keys otherwise; modified is true afterwards in every
\* case, and the call reports success.
C19_PatchMessageFieldLevel ==
  [][\A id \in MsgIds, mb \in Maybe({"", "y"}), mm \in Maybe(EditInfos) :
       (Present(id) /\ ret' # ret /\ ret'[1] = "PATCH" /\ ret'[2] = id
          /\ ret'[5] = <<mb, mm>> /\ ValidPatch(mb, mm))
         => LET old == messages[messageIndex[id]]
                new == messages'[messageIndex'[id]]
                keep == IF mm = <<>> THEN old.info ELSE mm[1]
            IN /\ ret'[3] = 200
               /\ new.body = IF mb = <<>> THEN old.body ELSE mb[1]
               /\ DOMAIN new.info = DOMAIN keep \cup {"modified"}
               /\ \A k \in DOMAIN keep \ {"modified"} : new.info[k] = keep[k]
               /\ new.info["modified"] = TRUE
               /\ new.id = old.id /\ new.type = old.type
               /\ \A i \in 1..Len(messages) :
                    i # messageIndex[id] => messages'[i] = messages[i]]_vars

\* A stored message was patched with metadata only: its body is the
\* original one, its metadata is the given one with modified set.
C19_Witness ==
  /\ ret[1] = "PATCH"
  /\ ret[3] = 200
  /\ ret[5] = <<(<<>>), <<EditedInfo>>>>
  /\ LET new == messages[messageIndex[ret[2]]]
     IN /\ new.body = "x"
        /\ DOMAIN new.info = {"edited", "modified"}

\* An edit handler (PATCH, PUT, DELETE) has answered a well-formed request
\* for the message id.
EditAnswered(id) ==
  /\ ret' # ret
  /\ ret'[1] \in {"PATCH", "PUT", "DELETE"}
  /\ ret'[2] = id
  /\ ret'[3] # 400

C21_PutReplacesBoth ==
  [][\A id \in MsgIds, info \in EditInfos :
       (Present(id) /\ ret' # ret /\ ret'[1] = "PUT" /\ ret'[2] = id
          /\ ret'[5] = <<"y", info>>)
         => LET old == messages[messageIndex[id]]
                new == messages'[messageIndex'[id]]
            IN /\ ret'[3] = 200
               /\ new.body = "y"
               /\ DOMAIN new.info = DOMAIN info \cup {"modified"}
               /\ \A k \in DOMAIN info \ {"modified"} : new.info[k] = info[k]
               /\ new.info["modified"] = TRUE
               /\ new.id = old.id /\ new.type = old.type
               /\ new.user = old.user /\ new.timestamp = old.timestamp]_vars

\* A message whose body still was the original one has been replaced by a
\* PUT with the metadata {edited}.
C21_Witness ==
  /\ ret[1] = "PUT"
  /\ ret[3] = 200
  /\ ret[5] = <<"y", EditedInfo>>
  /\ LET new == messages[messageIndex[ret[2]]]
     IN /\ new.body = "y"
        /\ DOMAIN new.info = {"edited", "modified"}

\* C22: deleting a message is a soft delete: the message stays in the store
\* under its id and at its position, its body becomes the string deleted,
\* its metadata exactly {deleted: true}, and the number of stored messages
\* is unchanged.
C22_SoftDelete ==
  [][\A id \in MsgIds :
       (Present(id) /\ ret' # ret /\ ret'[1] = "DELETE" /\ ret'[2] = id)
         => /\ ret'[3] = 200
            /\ Len(messages') = Len(messages)
            /\ messageIndex' = messageIndex
            /\ LogIds(messages') = LogIds(messages)
            /\ messages'[messageIndex[id]].body = "deleted"
            /\ DOMAIN messages'[messageIndex[id]].info = {"deleted"}
            /\ messages'[messageIndex[id]].info["deleted"] = TRUE
            /\ \A i \in 1..Len(messages) :
                 i # messageIndex[id] => messages'[i] = messages[i]]_vars

\* The first of two stored messages was deleted: two are stored, the first
\* one with the body deleted.
C22_Witness ==
  /\ ret[1] = "DELETE"
  /\ ret[3] = 200
  /\ Len(messages) = 2
  /\ messageIndex[ret[2]] = 1
  /\ messages[1].body = "deleted"
  /\ messages[2].body # "deleted"

\* An edit handler has applied the edit of a stored message and holds the
\* result for the broadcast.
EditApplied(id) ==
  /\ Present(id)
  /\ hpc = "idle"
  /\ ret' # ret \/ hpc' # hpc
  /\ ret'[1] \in {"PATCH", "PUT", "DELETE"}
  /\ ret'[2] = id
  /\ ret'[3] = 200

\* C24: on a room that was shut down, a PATCH, PUT or DELETE of a stored
\* message changes the store and answers 200; the broadcast attempt that
\* follows can always be given up, and giving it up returns the handler with
\* the answer 200 and leaves the store as the edit made it.
C24_EditOnShutDownRoom ==
  [][/\ \A id \in MsgIds :
          (RoomClosed /\ EditApplied(id))
            => /\ ret'[3] = 200
               /\ LET info == messages'[messageIndex[id]].info
                  IN \E k \in {"modified", "deleted"} :
                       k \in DOMAIN info /\ info[k]
               /\ hout' = Serialize(messages'[messageIndex[id]])
               /\ (ENABLED EditBroadcastFail)'
     /\ (RoomClosed /\ hpc = "bcast" /\ hpc' = "idle")
          => /\ hstatus' = 200
             /\ messages' = messages
             /\ recvLog' = recvLog]_vars

\* The room is shut down, a stored message was deleted, the handler has
\* returned and the answer is 200.
C24_Witness ==
  /\ RoomClosed
  /\ hpc = "idle"
  /\ hstatus = 200
  /\ ret[1] = "DELETE"
  /\ ret[3] = 200
  /\ Present(ret[2])
  /\ messages[messageIndex[ret[2]]].body = "deleted"

\* The frame of a stored message.
FrameOf(id) == Serialize(messages[messageIndex[id]])

\* C23: on a running room a successful PATCH, PUT or DELETE hands the
\* resulting message (same id, original type, edited body and metadata) to
\* the room's broadcast channel; the Engine takes it as it takes any
\* broadcast, for all registered clients, and each of them gets the frame
\* once at the end of its queue unless it is evicted as a slow consumer.
C23_EditIsBroadcast ==
  [][/\ \A id \in MsgIds :
          EditApplied(id)
            => /\ hpc' = "bcast"
               /\ hout' = Serialize(messages'[messageIndex[id]])
               /\ messages'[messageIndex[id]].id = id
               /\ messages'[messageIndex[id]].type
                    = messages[messageIndex[id]].type
     /\ (hpc = "bcast" /\ hpc' = "idle")
          => /\ fanTodo' = clients
             /\ clients # {} => fanMsg' = hout
             /\ hstatus' = 200
     /\ \A c \in Clients :
          (c \in fanTodo /\ c \notin fanTodo')
            => \/ c \notin clients'
               \/ send'[c] = Append(send[c], fanMsg)]_vars

\* Both clients are registered and each has the frame of the deleted
\* message, and nothing else, in its queue.
C23_Witness ==
  /\ clients = Clients
  /\ enginePc = "select"
  /\ \E id \in MsgIds :
       /\ Present(id)
       /\ messages[messageIndex[id]].body = "deleted"
       /\ \A c \in Clients : send[c] = <<FrameOf(id)>>

\* C25: wsHandler broadcasts the joined notice first and registers the
\* client only then: a client enters r.clients only after the Engine has
\* taken its joined notice from the broadcast channel.
C25_JoinedBeforeRegister ==
  [][\A c \in Clients :
       (c \notin clients /\ c \in clients') => rp[c] = "register"]_vars

\* Goroutine g of client c is in the body of Client.disconnect.
InDisconnect(c, g) == PcOf(c, g) \in {"disc_b", "disc_u"}

\* C26: the body of Client.disconnect runs at most once per client, whichever
\* pump exits first and however the exits interleave: a goroutine enters the
\* body only while the once is unused and uses it up for good, the body
\* makes one broadcast attempt of the left notice followed by one unregister
\* attempt, and the two pumps of a client are never both in the body.
C26_DisconnectOnce ==
  /\ [][\A c \in Clients :
          /\ disconnected[c] => disconnected'[c]
          /\ \A g \in Pumps :
               /\ (~InDisconnect(c, g) /\ InDisconnect(c, g)')
                    => /\ ~disconnected[c]
                       /\ disconnected'[c]
                       /\ PcOf(c, g)' = "disc_b"
               /\ (PcOf(c, g) = "disc_b" /\ PcOf(c, g)' # "disc_b")
                    => PcOf(c, g)' = "disc_u"
               /\ (PcOf(c, g) = "disc_u" /\ PcOf(c, g)' # "disc_u")
                    => PcOf(c, g)' = "done"]_vars
  /\ [](\A c \in Clients : ~(InDisconnect(c, "r") /\ InDisconnect(c, "w")))

\* The write pump of client 1 is in the body of disconnect, about to send
\* its unregister request, and the read pump has failed too and has
\* returned without running the body.
C26_Witness ==
  /\ wp[1] = "disc_u"
  /\ rp[1] = "done"
  /\ disconnected[1]

\* A system left notice is in the Message Store.
LeftStored ==
  \E i \in 1..Len(messages) :
    messages[i].type = SystemMessage /\ messages[i].body = LeftMsg

\* C27: Client.disconnect stores its left notice before it attempts the
\* broadcast: whenever a pump is in the body of disconnect, in tryBroadcast
\* or in tryUnregister, the notice is in the store, whatever the two calls
\* return.
C27_LeftStoredBeforeBroadcast ==
  \A c \in Clients, g \in Pumps : InDisconnect(c, g) => LeftStored

\* The Engine has taken a broadcast from a pump of some client: the pump
\* has left tryBroadcast, and it was not the shutdown case that released it.
BroadcastProcessed ==
  /\ enginePc = "select"
  /\ \E c \in Clients, g \in Pumps :
       /\ InTryBroadcast(c, g)
       /\ PcOf(c, g)' # PcOf(c, g)
       /\ \/ ~ShutdownClosed
          \/ enginePc' = "fanout"
          \/ PcOf(c, g)' \in {"register", "read"}

\* The Engine has added a client to r.clients.
ClientRegistered == \E c \in Clients : c \notin clients /\ c \in clients'

\* r.lastActivity does not go back: the time since the last activity, as of
\* the latest tick, stays, grows by one ticker period with a tick, or drops
\* to less than nothing (an activity after the latest tick).
ActivityMonotone ==
  \/ sinceActivity' = sinceActivity
  \/ sinceActivity' = sinceActivity + roomTimeoutInterval
  \/ sinceActivity' = 0 - 1

\* C28: r.lastActivity never decreases, and it is set to the current time
\* each time the Engine processes a register and each time it processes a
\* broadcast.
C28_ActivityAdvances ==
  [][/\ ActivityMonotone
     /\ BroadcastProcessed => sinceActivity' = 0 - 1
     /\ ClientRegistered => sinceActivity' = 0 - 1]_vars

\* A room metadata handler has written the metadata of the room.
MetadataEdited ==
  /\ ret' # ret
  /\ ret'[1] \in {"PATCH room", "PUT room"}
  /\ ret'[3] = 200

DisconnectAllDone == wPc = "disconnect" /\ wPc' = "done"

\* A frame is put into the queue of some client.
Delivered == \E c \in Clients : Len(send'[c]) > Len(send[c])

\* C30: when the Watcher times the room out, every client of the room has
\* its queue closed when disconnectAllClients returns, the timeout does not
\* end in a panic, so that the write pumps see the closed queues, and once
\* the shutdown signal is sent no broadcast is put into any client's queue.
C30_TimeoutClosesEveryQueue ==
  /\ [][DisconnectAllDone
          => \A c \in clients : sendCloses[c] >= 1]_vars
  /\ [](ShutdownClosed => ~crashed)
  /\ [][ShutdownClosed => ~Delivered]_vars

\* C31: a client's queue is closed only by the Engine and only after the
\* client was removed from r.clients: every close of a queue comes with the
\* removal of its client from the set, and no member of the set has a closed
\* queue.
C31_CloseOnlyAfterRemoval ==
  /\ [](\A c \in clients : sendCloses[c] = 0)
  /\ [][\A c \in Clients :
          sendCloses'[c] > sendCloses[c]
            => c \in clients /\ c \notin clients']_vars

\* The Engine's selector has taken an unregister that removed its client.
UnregisterProcessed ==
  /\ enginePc = "select"
  /\ \E c \in Clients, g \in Pumps :
       /\ InTryUnregister(c, g)
       /\ PcOf(c, g)' = "done"
       /\ c \in clients
       /\ c \notin clients'

\* The Engine's selector has taken a broadcast although the shutdown case
\* was ready: a fan-out begins, or the producer goes on as after a success.
BroadcastAccepted ==
  /\ enginePc = "select"
  /\ \E c \in Clients, g \in Pumps :
       /\ InTryBroadcast(c, g)
       /\ PcOf(c, g)' # PcOf(c, g)
       /\ enginePc' = "fanout" \/ PcOf(c, g)' \in {"register", "read"}

\* C32: once r.shutdown is closed the Engine's select takes no register, no
\* unregister and no broadcast any more, also when a producer is ready on
\* its channel at the same time.
C32_NothingAcceptedAfterShutdown ==
  [][ShutdownClosed
       => /\ ~ClientRegistered
          /\ ~UnregisterProcessed
          /\ ~BroadcastAccepted]_vars

\* The Watcher is inside the range over r.clients of disconnectAllClients,
\* which takes no lock.
UnlockedRange == wPc = "disconnect"

\* C33: r.clients is written by the Engine only, and no other task reads or
\* ranges over it without the clients lock while the Engine writes it: the
\* set does not change while the Watcher's range over it is under way, and
\* no step of the Watcher changes it.
C33_NoUnlockedReadDuringWrite ==
  [][/\ UnlockedRange => clients' = clients
     /\ wPc' # wPc => clients' = clients]_vars

\* A step of the Engine inside its fan-out loop.
FanoutStepTaken ==
  /\ enginePc = "fanout"
  /\ <<wPc, wVisited, shutdownCloses>>' = <<wPc, wVisited, shutdownCloses>>
  /\ <<fanTodo, crashed>>' # <<fanTodo, crashed>>

\* C34: the Engine never blocks on a client send. While a fan-out is under
\* way a client is left to visit and the visit can be made at once, whatever
\* the state of the queues; every visit takes one client off the list, and
\* after the last one the Engine is back in its select.
C34_EngineNeverBlocks ==
  /\ []((enginePc = "fanout" /\ Running)
          => /\ fanTodo # {}
             /\ \A c \in fanTodo : ENABLED EngineFanoutStep(c))
  /\ [][FanoutStepTaken
          => /\ ~crashed'
             /\ fanTodo' \subseteq fanTodo
             /\ Cardinality(fanTodo') = Cardinality(fanTodo) - 1
             /\ enginePc' = IF fanTodo' = {} THEN "select" ELSE "fanout"]_vars

\* The Engine has left its loop with close(r.closed) as its last act, and
\* the Watcher has returned.
RoomTerminated == EngineDone /\ closedCloses = 1 /\ wPc = "done"

\* C35: after r.shutdown is closed the Engine eventually leaves its loop
\* and closes r.closed, and the Watcher eventually returns too.
C35_ShutdownTerminates == ShutdownClosed ~> RoomTerminated

\* C36: the life of a room only moves forward, running, draining,
\* terminated: the Engine terminates and r.closed is closed only after
\* r.shutdown was closed, a closed r.shutdown stays closed and a terminated
\* Engine stays terminated, and once the Engine and the Watcher have both
\* returned the room is not in the Hub.
C36_LifecycleForward ==
  /\ []((EngineDone \/ closedCloses >= 1) => ShutdownClosed)
  /\ [][/\ ShutdownClosed => ShutdownClosed'
        /\ EngineDone => EngineDone'
        /\ closedCloses' >= closedCloses]_vars
  /\ []((EngineDone /\ wPc = "done") => TheRoom \notin rooms)

\* Task t waits in Lock or RLock for task u: u holds the mutex in a
\* conflicting mode, or u waits in Lock for a held mutex t wants to read
\* (a waiting writer blocks new readers).
WaitsOn(t, u) ==
  LET call == NextCall(t)
  IN  \/ call[1] = "Lock" /\ u \in Holders(call[2])
      \/ call[1] = "RLock" /\ u \in Writers(call[2])
      \/ /\ call[1] = "RLock"
         /\ u # t
         /\ NextCall(u) = <<"Lock", call[2]>>
         /\ Holders(call[2]) # {}

\* Every task of S waits for a task of S: a cycle of waits exists in S.
WaitCycle(S) == S # {} /\ \A t \in S : \E u \in S : WaitsOn(t, u)

\* C37: no set of tasks waits on each other in a cycle over the mutexes,
\* and no task other than the Engine holds more than one mutex at a time.
C37_NoLockCycle ==
  /\ \A S \in SUBSET LockTasks : ~WaitCycle(S)
  /\ \A t \in LockTasks \ {"engine"} : Cardinality(lockHeld[t]) <= 1

\* Contention happens: a task waits for a mutex another task holds while a
\* third task holds a mutex too.
C37_Witness ==
  \E t, u, v \in LockTasks :
    /\ t # u /\ v \notin {t, u}
    /\ WaitsOn(t, u)
    /\ lockHeld[u] # {}
    /\ lockHeld[v] # {}

\* The Engine is in the range loop of a fan-out and has still to send to c.
AboutToSendTo(c) == Running /\ enginePc = "fanout" /\ c \in fanTodo

\* C38: every queue the Engine has still to send to during a fan-out is
\* open.
C38_SendsOnlyToOpenQueues ==
  \A c \in Clients : AboutToSendTo(c) => sendCloses[c] = 0

\* The Engine's loop puts a message into the queue of client c.
AppendedTo(c) == Len(send'[c]) > Len(send[c])

\* C39: a message is appended to a client's queue only by the fan-out of
\* the broadcast the Engine is processing, and only if the client was in
\* r.clients when the Engine took that broadcast and still is: a fan-out
\* visits exactly the clients registered when it starts, and a client it
\* has still to visit is in r.clients.
C39_OnlyMembersReceive ==
  /\ [](enginePc = "fanout" => fanTodo \subseteq clients)
  /\ [][(enginePc = "select" /\ enginePc' = "fanout")
          => fanTodo' = clients /\ clients' = clients]_vars
  /\ [][\A c \in Clients : AppendedTo(c) =>
          /\ enginePc = "fanout"
          /\ c \in fanTodo
          /\ c \in clients
          /\ send'[c] = Append(send[c], fanMsg)]_vars

\* A member got the joined notice of a client that is connected and not
\* yet registered, and that client got nothing.
C39_Witness ==
  \E c, d \in Clients :
    /\ c \in clients
    /\ d \notin clients
    /\ rp[d] = "register"
    /\ send[c] # <<>>
    /\ send[d] = <<>>

\* The ids of the messages GetMessages returns.
IdsOf(log) == {log[i].id : i \in DOMAIN log}

\* C40: the ordered log and the lookup by id agree: GetMessage(id) reports
\* present exactly for the ids that occur in GetMessages, each id occurs
\* there once, and GetMessage(id) is the entry with that id in GetMessages,
\* with the same body and metadata.
C40_LogAndIndexAgree ==
  \A id \in MsgIds :
    /\ Present(id) <=> id \in IdsOf(GetMessages)
    /\ Cardinality({i \in DOMAIN GetMessages : GetMessages[i].id = id}) <= 1
    /\ Present(id) =>
         \A i \in DOMAIN GetMessages :
           GetMessages[i].id = id =>
             /\ GetMessage(id).id = id
             /\ GetMessage(id).body = GetMessages[i].body
             /\ GetMessage(id).info = GetMessages[i].info

\* Two messages are stored; the first was edited and has a body different
\* from the second's, one of them is flagged deleted.
C40_Witness ==
  /\ Len(messages) = 2
  /\ messages[1].body # messages[2].body
  /\ "modified" \in DOMAIN messages[1].info
  /\ \E i \in 1..2 : "deleted" \in DOMAIN messages[i].info

====
